---- MODULE Spec2Model ----
(***************************************************************************)
(* ai_patch.py: the patch-stream tokenizer (apply_patches, read_until),    *)
(* the block handlers (apply_diff, write_file, delete_file) and the        *)
(* unified-diff replay (apply_unified_diff_logic).                         *)
(*                                                                         *)
(* A line of text is a record [m, n, t]: m is the leading marker the       *)
(* code's regular expressions and startswith tests look at, n the          *)
(* old_start number of a hunk header (0 elsewhere) and t the rest of the   *)
(* line.  Every line carries its terminator (splitlines(keepends=True)),   *)
(* so ''.join followed by splitlines gives the same lines back.            *)
(* Indices (idx, i, src_idx) are 0-based as in the code; sequences are     *)
(* 1-based, so lines[idx] of the code is lines[idx + 1] here.              *)
(***************************************************************************)
EXTENDS Integers, Sequences, FiniteSets, TLC

VARIABLES
    original_lines, patch_lines, output, src_idx, i, pc,   \* apply_unified_diff_logic
    lines, idx, fs, dry, status, log                       \* apply_patches

applyVars == <<original_lines, patch_lines, output, src_idx, i, pc>>
runVars == <<lines, idx, fs, dry, status, log>>
vars == <<original_lines, patch_lines, output, src_idx, i, pc,
          lines, idx, fs, dry, status, log>>

(***************************************************************************)
(* Bounds of the checked instances.                                        *)
(***************************************************************************)
MaxOrig == 2
MaxPatchLen == 3
MaxStreamLen == 5

Line(m, n, t) == [m |-> m, n |-> n, t |-> t]

Min(a, b) == IF a < b THEN a ELSE b

\* Python's s[a:b] on a list, 0-based, clamped to the list.
Slice(s, a, b) ==
    LET hi == Min(b, Len(s))
    IN  IF a >= hi THEN << >> ELSE SubSeq(s, a + 1, hi)

\* Python's s[a:].
SliceFrom(s, a) == Slice(s, a, Len(s))

\* All sequences over S of length 0..n.
SeqsUpTo(S, n) == UNION {[1..k -> S] : k \in 0..n}

\* The lines a file can hold: text lines, numbered so that they differ.
FileLine(j) == Line("", j, "text")

Paths == {"f", "g"}
Absent == [exists |-> FALSE, content |-> << >>]
File(content) == [exists |-> TRUE, content |-> content]
Msg(msg, path) == [msg |-> msg, path |-> path]
\* The dry-run message of apply_diff also prints the length of the result.
DryPatchMsg(path, n) == [msg |-> "[dry-run] would patch", path |-> path, n |-> n]

\* The file tree a run starts from.
InitialFiles ==
    [p \in Paths |-> IF p = "f" THEN File(<<FileLine(1), FileLine(2)>>)
                     ELSE File(<<FileLine(1)>>)]

(***************************************************************************)
(* apply_unified_diff_logic                                                *)
(***************************************************************************)
HUNK_HEADER_RE(line) == line.m = "@@"

\* line.startswith(c); the preamble markers "---" and "+++" also start with
\* "-" and "+".
StartsWith(line, c) ==
    \/ line.m = c
    \/ c = "-" /\ line.m = "---"
    \/ c = "+" /\ line.m = "+++"

IsPreamble(line) == line.m \in {"---", "+++", "index "}

\* Mutant: no line counts as blank, so an empty line is an unexpected line.
IsBlankNever(line) == FALSE

\* pl.strip() == ''
IsBlank(line) == line.m = "" /\ line.t = ""

\* pl[1:] of a line that starts with a one-character marker.
DropFirst(line) == Line("", 0, line.t)

TargetSrcIdx(old_start) == IF old_start > 0 THEN old_start - 1 ELSE 0

\* Mutant: a hunk that starts exactly at the cursor is rejected too.
GoingBackwardsOrEqual(target_src_idx, src) == target_src_idx <= src

GoingBackwards(target_src_idx, src) == target_src_idx < src

\* The state of one call, as a record.
ApplyStart(orig, patch) ==
    [original_lines |-> orig, patch_lines |-> patch, output |-> << >>,
     src_idx |-> 0, i |-> 0, pc |-> "scan"]

\* One iteration of the outer loop at a line that is not a hunk header.
SkipLineStep(st) == [st EXCEPT !.i = st.i + 1]

\* One iteration of the outer loop at a hunk header.
HunkHeaderStep(st) ==
    LET old_start == st.patch_lines[st.i + 1].n
        target_src_idx == TargetSrcIdx(old_start)
    IN  IF GoingBackwards(target_src_idx, st.src_idx)
        THEN [st EXCEPT !.pc = "OutOfOrderHunk"]
        ELSE [st EXCEPT
                !.output = st.output \o Slice(st.original_lines, st.src_idx, target_src_idx),
                !.src_idx = target_src_idx,
                !.i = st.i + 1,
                !.pc = "body"]

\* Mutant: the bounds test of the context branch is dropped.
ContextGuardAlways(src, orig) == TRUE

ContextGuard(src, orig) == src < Len(orig)

\* Mutant: past the end of the original the cursor stays where it is.
ContextLineStepNoAdvance(st) ==
    IF st.src_idx < Len(st.original_lines)
    THEN [st EXCEPT !.output = Append(st.output, st.original_lines[st.src_idx + 1]),
                    !.src_idx = st.src_idx + 1,
                    !.i = st.i + 1]
    ELSE [st EXCEPT !.i = st.i + 1]

\* Mutant: the context line's own text is emitted, not the original's line.
ContextLineStepPatchText(st) ==
    IF st.src_idx < Len(st.original_lines)
    THEN [st EXCEPT !.output = Append(st.output, Line("", 0, st.patch_lines[st.i + 1].t)),
                    !.src_idx = st.src_idx + 1,
                    !.i = st.i + 1]
    ELSE [st EXCEPT !.src_idx = st.src_idx + 1, !.i = st.i + 1]

\* Mutant: a context line whose text differs from the original's line is
\* dropped from the output.
ContextLineStepDropsMismatch(st) ==
    IF st.src_idx < Len(st.original_lines)
       /\ st.original_lines[st.src_idx + 1].t = st.patch_lines[st.i + 1].t
    THEN [st EXCEPT !.output = Append(st.output, st.original_lines[st.src_idx + 1]),
                    !.src_idx = st.src_idx + 1,
                    !.i = st.i + 1]
    ELSE [st EXCEPT !.src_idx = st.src_idx + 1, !.i = st.i + 1]

\* original_lines[src_idx] raises IndexError outside the list.
ContextLineStep(st) ==
    IF ContextGuard(st.src_idx, st.original_lines)
    THEN IF st.src_idx < Len(st.original_lines)
         THEN [st EXCEPT !.output = Append(st.output, st.original_lines[st.src_idx + 1]),
                         !.src_idx = st.src_idx + 1,
                         !.i = st.i + 1]
         ELSE [st EXCEPT !.pc = "IndexError"]
    ELSE [st EXCEPT !.src_idx = st.src_idx + 1, !.i = st.i + 1]

\* Mutant: a removed line does not consume a line of the original.
RemovedLineStepStuck(st) == [st EXCEPT !.i = st.i + 1]

RemovedLineStep(st) == [st EXCEPT !.src_idx = st.src_idx + 1, !.i = st.i + 1]

AddedLineStep(st) ==
    [st EXCEPT !.output = Append(st.output, DropFirst(st.patch_lines[st.i + 1])),
               !.i = st.i + 1]

\* "\ No newline at end of file" and blank lines: pass.
PassLineStep(st) == [st EXCEPT !.i = st.i + 1]

\* Mutant: an unexpected line is passed over and the hunk goes on.
BodyEndStepContinues(st) ==
    IF st.i < Len(st.patch_lines) /\ ~HUNK_HEADER_RE(st.patch_lines[st.i + 1])
    THEN [st EXCEPT !.i = st.i + 1]
    ELSE [st EXCEPT !.pc = "scan"]

\* The inner loop ends: end of the patch, the next hunk header, or break.
BodyEndStep(st) == [st EXCEPT !.pc = "scan"]

\* Mutant: the untouched tail of the original is not copied.
FinishStepNoTail(st) == [st EXCEPT !.pc = "done"]

FinishStep(st) ==
    [st EXCEPT !.output = st.output \o SliceFrom(st.original_lines, st.src_idx),
               !.pc = "done"]

AtLine(st) == st.i < Len(st.patch_lines)
Cur(st) == st.patch_lines[st.i + 1]

InBody(st) == st.pc = "body" /\ AtLine(st) /\ ~HUNK_HEADER_RE(Cur(st))

IsContext(st) == InBody(st) /\ StartsWith(Cur(st), " ")
IsRemoved(st) == InBody(st) /\ ~StartsWith(Cur(st), " ") /\ StartsWith(Cur(st), "-")
IsAdded(st) ==
    InBody(st) /\ ~StartsWith(Cur(st), " ") /\ ~StartsWith(Cur(st), "-")
    /\ StartsWith(Cur(st), "+")
IsMarked(st) ==
    StartsWith(Cur(st), " ") \/ StartsWith(Cur(st), "-") \/ StartsWith(Cur(st), "+")
IsPass(st) ==
    InBody(st) /\ ~IsMarked(st) /\ (StartsWith(Cur(st), "\\") \/ IsBlank(Cur(st)))
IsUnrecognized(st) ==
    InBody(st) /\ ~IsMarked(st) /\ ~StartsWith(Cur(st), "\\") /\ ~IsBlank(Cur(st))
IsBodyEnd(st) ==
    st.pc = "body"
    /\ IF AtLine(st) THEN HUNK_HEADER_RE(Cur(st)) \/ IsUnrecognized(st) ELSE TRUE
IsSkip(st) ==
    st.pc = "scan" /\ AtLine(st)
    /\ IF IsPreamble(Cur(st)) THEN TRUE ELSE ~HUNK_HEADER_RE(Cur(st))
IsHeader(st) ==
    st.pc = "scan" /\ AtLine(st) /\ ~IsPreamble(Cur(st)) /\ HUNK_HEADER_RE(Cur(st))
IsFinish(st) == st.pc = "scan" /\ ~AtLine(st)

Returned(st) == st.pc \in {"done", "OutOfOrderHunk", "IndexError"}

\* One step of the function, whichever applies.
ApplyStep(st) ==
    CASE IsSkip(st) -> SkipLineStep(st)
      [] IsHeader(st) -> HunkHeaderStep(st)
      [] IsFinish(st) -> FinishStep(st)
      [] IsContext(st) -> ContextLineStep(st)
      [] IsRemoved(st) -> RemovedLineStep(st)
      [] IsAdded(st) -> AddedLineStep(st)
      [] IsPass(st) -> PassLineStep(st)
      [] IsBodyEnd(st) -> BodyEndStep(st)

RECURSIVE ApplyRun(_)
ApplyRun(st) == IF Returned(st) THEN st ELSE ApplyRun(ApplyStep(st))

\* The whole call: the final state, whose pc says how it returned.
apply_unified_diff_logic(orig, patch) == ApplyRun(ApplyStart(orig, patch))

(***************************************************************************)
(* The call as a state machine over the variables.                         *)
(***************************************************************************)
Now ==
    [original_lines |-> original_lines, patch_lines |-> patch_lines,
     output |-> output, src_idx |-> src_idx, i |-> i, pc |-> pc]

Become(st) ==
    /\ original_lines' = st.original_lines
    /\ patch_lines' = st.patch_lines
    /\ output' = st.output
    /\ src_idx' = st.src_idx
    /\ i' = st.i
    /\ pc' = st.pc
    /\ UNCHANGED runVars

SkipLine == IsSkip(Now) /\ Become(SkipLineStep(Now))
HunkHeader == IsHeader(Now) /\ Become(HunkHeaderStep(Now))
ContextLine == IsContext(Now) /\ Become(ContextLineStep(Now))
RemovedLine == IsRemoved(Now) /\ Become(RemovedLineStep(Now))
AddedLine == IsAdded(Now) /\ Become(AddedLineStep(Now))
PassLine == IsPass(Now) /\ Become(PassLineStep(Now))
BodyEnd == IsBodyEnd(Now) /\ Become(BodyEndStep(Now))
Finish == IsFinish(Now) /\ Become(FinishStep(Now))

Originals == {[k \in 1..n |-> FileLine(k)] : n \in 0..MaxOrig}

\* The lines of a diff body.
HeaderLines == {Line("@@", n, "") : n \in 0..(MaxOrig + 1)}
BodyLines ==
    {Line(" ", 0, "ctx"), Line("-", 0, "old"), Line("+", 0, "new"),
     Line("\\", 0, " No newline at end of file"), Line("", 0, ""),
     Line("", 0, "garbage")}
PatchLines == HeaderLines \cup BodyLines

(***************************************************************************)
(* apply_patches and the block handlers.  The file tree fs maps a path to  *)
(* [exists, content]; content is the file's lines.  log is what the run    *)
(* prints, one entry per message.                                          *)
(***************************************************************************)
PATCH_START_RE(line) == line.m = "## patch-start:"
REPLACE_START_RE(line) == line.m = "## replace-start:"
DELETE_RE(line) == line.m = "## delete:"
\* Mutant: a delete marker ends a block as well.
END_RE_AnyMarker(line) == line.m \in {"## patch-end", "## replace-end", "## delete:"}

END_RE(line) == line.m \in {"## patch-end", "## replace-end"}

\* The loop of read_until from line k on, with the block collected so far.
RECURSIVE ReadLoop(_, _, _)
ReadLoop(ls, k, block) ==
    IF k >= Len(ls)
    THEN [raised |-> TRUE, block |-> block, next |-> k]
    ELSE IF END_RE(ls[k + 1])
         THEN [raised |-> FALSE, block |-> block, next |-> k + 1]
         ELSE ReadLoop(ls, k + 1, Append(block, ls[k + 1]))

\* Mutant: the end of the input closes an open block.
read_until_lenient(ls, start) == [ReadLoop(ls, start, << >>) EXCEPT !.raised = FALSE]

read_until(ls, start) == ReadLoop(ls, start, << >>)

\* Mutant: the original is the file as it was when the run began.
OriginalOfInitial(files, path) ==
    IF files[path].exists THEN InitialFiles[path].content ELSE << >>

\* path.read_text(...).splitlines(keepends=True), or [] for a missing file.
OriginalOf(files, path) == IF files[path].exists THEN files[path].content ELSE << >>

\* Mutant: a failed diff still writes the output produced so far.
apply_diff_KeepsPartial(diff_text, path, isDry, files, out) ==
    LET res == apply_unified_diff_logic(OriginalOf(files, path), diff_text)
    IN  [fs |-> [files EXCEPT ![path] = File(res.output)],
         log |-> Append(out, Msg(IF res.pc = "done" THEN "Patched"
                                 ELSE "Failed to apply diff", path))]

\* Mutant: the result is written in a dry run as well.
apply_diff_IgnoresDry(diff_text, path, isDry, files, out) ==
    LET out1 == IF files[path].exists THEN out
                ELSE Append(out, Msg("does not exist; treating as empty file", path))
        res == apply_unified_diff_logic(OriginalOf(files, path), diff_text)
    IN  IF res.pc # "done"
        THEN [fs |-> files, log |-> Append(out1, Msg("Failed to apply diff", path))]
        ELSE [fs |-> [files EXCEPT ![path] = File(res.output)],
              log |-> Append(out1, IF isDry THEN DryPatchMsg(path, Len(res.output))
                                   ELSE Msg("Patched", path))]

\* Mutant: a missing target is a failure of the block.
apply_diff_MissingFails(diff_text, path, isDry, files, out) ==
    LET res == apply_unified_diff_logic(OriginalOf(files, path), diff_text)
    IN  IF res.pc # "done" \/ ~files[path].exists
        THEN [fs |-> files, log |-> Append(out, Msg("Failed to apply diff", path))]
        ELSE [fs |-> [files EXCEPT ![path] = File(res.output)],
              log |-> Append(out, Msg("Patched", path))]

\* The file tree and the log after apply_diff(diff_text, path, dry).
apply_diff(diff_text, path, isDry, files, out) ==
    LET out1 == IF files[path].exists THEN out
                ELSE Append(out, Msg("does not exist; treating as empty file", path))
        res == apply_unified_diff_logic(OriginalOf(files, path), diff_text)
    IN  IF res.pc # "done"
        THEN [fs |-> files, log |-> Append(out1, Msg("Failed to apply diff", path))]
        ELSE IF isDry
             THEN [fs |-> files,
                   log |-> Append(out1, DryPatchMsg(path, Len(res.output)))]
             ELSE [fs |-> [files EXCEPT ![path] = File(res.output)],
                   log |-> Append(out1, Msg("Patched", path))]

\* Mutant: the block is appended to what the file holds.
write_file_Appends(text_block, path, isDry, files, out) ==
    [fs |-> [files EXCEPT ![path] = File(OriginalOf(files, path) \o text_block)],
     log |-> Append(out, Msg("Wrote", path))]

write_file(text_block, path, isDry, files, out) ==
    IF isDry
    THEN [fs |-> files, log |-> Append(out, Msg("[dry-run] would write", path))]
    ELSE [fs |-> [files EXCEPT ![path] = File(text_block)],
          log |-> Append(out, Msg("Wrote", path))]

\* Mutant: the file is reported deleted but not unlinked.
delete_file_KeepsFile(path, isDry, files, out) ==
    [fs |-> files,
     log |-> Append(out, Msg(IF files[path].exists THEN "Deleted"
                             ELSE "Skipped delete (not found)", path))]

delete_file(path, isDry, files, out) ==
    IF isDry
    THEN [fs |-> files, log |-> Append(out, Msg("[dry-run] would delete", path))]
    ELSE IF files[path].exists
         THEN [fs |-> [files EXCEPT ![path] = Absent],
               log |-> Append(out, Msg("Deleted", path))]
         ELSE [fs |-> files, log |-> Append(out, Msg("Skipped delete (not found)", path))]

Running == status = "running" /\ idx < Len(lines)

\* read_until raised: the ValueError leaves apply_patches.
Raise ==
    /\ status' = "UnterminatedBlock"
    /\ UNCHANGED <<lines, idx, fs, dry, log>>

PatchBlock ==
    /\ Running
    /\ PATCH_START_RE(lines[idx + 1])
    /\ LET r == read_until(lines, idx + 1)
           a == apply_diff(r.block, lines[idx + 1].t, dry, fs, log)
       IN  IF r.raised
           THEN Raise
           ELSE /\ idx' = r.next
                /\ fs' = a.fs
                /\ log' = a.log
                /\ UNCHANGED <<lines, dry, status>>
    /\ UNCHANGED applyVars

ReplaceBlock ==
    /\ Running
    /\ ~PATCH_START_RE(lines[idx + 1])
    /\ REPLACE_START_RE(lines[idx + 1])
    /\ LET r == read_until(lines, idx + 1)
           w == write_file(r.block, lines[idx + 1].t, dry, fs, log)
       IN  IF r.raised
           THEN Raise
           ELSE /\ idx' = r.next
                /\ fs' = w.fs
                /\ log' = w.log
                /\ UNCHANGED <<lines, dry, status>>
    /\ UNCHANGED applyVars

\* Mutant: the delete branch does not advance idx.
DeleteBlockNoAdvance ==
    /\ Running
    /\ ~PATCH_START_RE(lines[idx + 1])
    /\ ~REPLACE_START_RE(lines[idx + 1])
    /\ DELETE_RE(lines[idx + 1])
    /\ LET d == delete_file(lines[idx + 1].t, dry, fs, log)
       IN  /\ fs' = d.fs
           /\ log' = d.log
    /\ UNCHANGED <<lines, idx, dry, status>>
    /\ UNCHANGED applyVars

DeleteBlock ==
    /\ Running
    /\ ~PATCH_START_RE(lines[idx + 1])
    /\ ~REPLACE_START_RE(lines[idx + 1])
    /\ DELETE_RE(lines[idx + 1])
    /\ LET d == delete_file(lines[idx + 1].t, dry, fs, log)
       IN  /\ fs' = d.fs
           /\ log' = d.log
    /\ idx' = idx + 1
    /\ UNCHANGED <<lines, dry, status>>
    /\ UNCHANGED applyVars

OtherLine ==
    /\ Running
    /\ ~PATCH_START_RE(lines[idx + 1])
    /\ ~REPLACE_START_RE(lines[idx + 1])
    /\ ~DELETE_RE(lines[idx + 1])
    /\ idx' = idx + 1
    /\ UNCHANGED <<lines, fs, dry, status, log>>
    /\ UNCHANGED applyVars

\* The while loop ends and apply_patches returns.
Return ==
    /\ status = "running"
    /\ idx >= Len(lines)
    /\ status' = "done"
    /\ UNCHANGED <<lines, idx, fs, dry, log>>
    /\ UNCHANGED applyVars

\* The lines of a patch stream.
StreamLines ==
    {Line("## patch-start:", 0, "f"), Line("## replace-start:", 0, "f"),
     Line("## delete:", 0, "f"), Line("## delete:", 0, "g"),
     Line("## patch-end", 0, ""),
     Line("@@", 1, ""), Line("@@", 2, ""), Line("+", 0, "new")}

Init ==
    /\ lines \in SeqsUpTo(StreamLines, MaxStreamLen)
    /\ idx = 0
    /\ fs = InitialFiles
    /\ dry = FALSE
    /\ status = "running"
    /\ log = << >>
    /\ original_lines = << >>
    /\ patch_lines = << >>
    /\ output = << >>
    /\ src_idx = 0
    /\ i = 0
    /\ pc = "idle"

Next ==
    \/ PatchBlock
    \/ ReplaceBlock
    \/ DeleteBlock
    \/ OtherLine
    \/ Return

Spec == Init /\ [][Next]_vars

\* The file trees a dry run starts from: the initial one, and one where f is
\* missing.
DryTrees == {InitialFiles, [InitialFiles EXCEPT !["f"] = Absent]}

\* apply_patches(text, dry=True).
InitDry ==
    /\ lines \in SeqsUpTo(StreamLines, MaxStreamLen - 1)
    /\ idx = 0
    /\ fs \in DryTrees
    /\ dry = TRUE
    /\ status = "running"
    /\ log = << >>
    /\ original_lines = << >>
    /\ patch_lines = << >>
    /\ output = << >>
    /\ src_idx = 0
    /\ i = 0
    /\ pc = "idle"

SpecDry == InitDry /\ [][Next]_vars

InitApply ==
    /\ original_lines \in Originals
    /\ patch_lines \in SeqsUpTo(PatchLines, MaxPatchLen)
    /\ output = << >>
    /\ src_idx = 0
    /\ i = 0
    /\ pc = "scan"
    /\ lines = << >>
    /\ idx = 0
    /\ fs = InitialFiles
    /\ dry = FALSE
    /\ status = "idle"
    /\ log = << >>

NextApply ==
    \/ SkipLine
    \/ HunkHeader
    \/ ContextLine
    \/ RemovedLine
    \/ AddedLine
    \/ PassLine
    \/ BodyEnd
    \/ Finish

SpecApply == InitApply /\ [][NextApply]_vars

\* Longer diffs over fewer kinds of line: a hunk cut short by an unexpected
\* line, the lines after it, and the hunk that follows.
LongPatchLines ==
    {Line("@@", 1, ""), Line("@@", 2, ""), Line(" ", 0, "ctx"), Line("-", 0, "old"),
     Line("+", 0, "new"), Line("", 0, ""), Line("", 0, "garbage")}

InitApplyLong ==
    /\ original_lines \in Originals
    /\ patch_lines \in SeqsUpTo(LongPatchLines, MaxPatchLen + 1)
    /\ output = << >>
    /\ src_idx = 0
    /\ i = 0
    /\ pc = "scan"
    /\ lines = << >>
    /\ idx = 0
    /\ fs = InitialFiles
    /\ dry = FALSE
    /\ status = "idle"
    /\ log = << >>

SpecApplyLong == InitApplyLong /\ [][NextApply]_vars

(***************************************************************************)
(* Properties of apply_unified_diff_logic, checked under SpecApply.        *)
(***************************************************************************)
Max(a, b) == IF a > b THEN a ELSE b
IsHunkHeaderLine(l) == l.m = "@@"
IsContextLine(l) == l.m = " "
IsRemovedLine(l) == l.m = "-"
IsAddedLine(l) == l.m = "+"
AtHeader == pc = "scan" /\ i < Len(patch_lines) /\ IsHunkHeaderLine(patch_lines[i + 1])
AtBodyLine == pc = "body" /\ i < Len(patch_lines)
TargetOf(l) == Max(l.n - 1, 0)

\* C1: the call fails with OutOfOrderHunk exactly at a hunk header whose
\* target max(old_start - 1, 0) is strictly less than the cursor left by the
\* hunks before it; a header whose target is at or after the cursor is
\* accepted: the gap is copied and the cursor moves to the target.
C1_OutOfOrderExactly ==
    [][/\ AtHeader =>
            LET target == TargetOf(patch_lines[i + 1])
            IN  /\ (pc' = "OutOfOrderHunk") <=> (target < src_idx)
                /\ target >= src_idx =>
                     /\ pc' = "body"
                     /\ src_idx' = target
                     /\ output' = output \o Slice(original_lines, src_idx, target)
       /\ (pc' = "OutOfOrderHunk" /\ pc # "OutOfOrderHunk") => AtHeader]_vars

\* A second hunk whose target equals the cursor the first hunk left (1) has
\* been accepted.
C1_Witness ==
    /\ pc = "body" /\ i = 3 /\ src_idx = 1
    /\ Len(original_lines) = 2
    /\ patch_lines = <<Line("@@", 1, ""), Line("-", 0, "old"), Line("@@", 2, "")>>
    /\ output = << >>

\* The hunk headers carry old_start only: the code never reads old_count, so a
\* header with old_count = 0 is any header.
IsPureInsertion ==
    /\ Len(patch_lines) >= 2
    /\ IsHunkHeaderLine(patch_lines[1])
    /\ patch_lines[1].n <= Len(original_lines)
    /\ \A j \in 2..Len(patch_lines) : IsAddedLine(patch_lines[j])

Inserted == [j \in 1..(Len(patch_lines) - 1) |-> Line("", 0, patch_lines[j + 1].t)]

\* C3: a single hunk with old_start = k, 0 <= k <= len(original), and only
\* Added lines yields original[0:k] + inserted + original[k:].
C3_PureInsertion ==
    (pc = "done" /\ IsPureInsertion) =>
        output = Slice(original_lines, 0, patch_lines[1].n) \o Inserted
                 \o SliceFrom(original_lines, patch_lines[1].n)

ContextBeyondEnd ==
    AtBodyLine /\ IsContextLine(patch_lines[i + 1]) /\ src_idx >= Len(original_lines)

\* C4 as stated: a Context line interpreted with the original exhausted
\* appends nothing and leaves the cursor unchanged.
C4_CursorUnchanged ==
    [][ContextBeyondEnd => (output' = output /\ src_idx' = src_idx)]_vars

\* C4 amended: such a Context line appends nothing and advances the cursor by
\* exactly 1, as every Context line does, so a later hunk's ordering check
\* sees a cursor one greater.
C4_CursorAdvances ==
    [][ContextBeyondEnd =>
         (output' = output /\ src_idx' = src_idx + 1 /\ pc' = "body" /\ i' = i + 1)]_vars

\* A Context line past the end of an empty original moved the cursor to 1, and
\* the next hunk, whose target is 0, was rejected.
C4_Witness ==
    /\ pc = "OutOfOrderHunk"
    /\ original_lines = << >>
    /\ patch_lines = <<Line("@@", 1, ""), Line(" ", 0, "ctx"), Line("@@", 1, "")>>
    /\ src_idx = 1 /\ output = << >>

ContextOnly ==
    \A j \in 1..Len(patch_lines) :
        IsHunkHeaderLine(patch_lines[j]) \/ IsContextLine(patch_lines[j])

\* C5 as stated: a block of hunks with Context lines only returns original,
\* whatever the hunks' old_start values.
C5_ContextOnlyReturnsOriginal ==
    (ContextOnly /\ pc \notin {"scan", "body"}) => (pc = "done" /\ output = original_lines)

\* C5 amended: such a block either fails with OutOfOrderHunk (a hunk's target
\* lies behind the cursor) or returns a sequence equal to original.
C5_ContextOnlyPreserves ==
    (ContextOnly /\ pc \notin {"scan", "body"}) =>
        \/ pc = "OutOfOrderHunk"
        \/ pc = "done" /\ output = original_lines

\* Two context-only hunks, the first with a Context line, have been applied to
\* a two-line original.
C5_Witness ==
    /\ pc = "done" /\ ContextOnly
    /\ Len(patch_lines) = 3
    /\ IsHunkHeaderLine(patch_lines[1]) /\ IsContextLine(patch_lines[2])
    /\ IsHunkHeaderLine(patch_lines[3])
    /\ Len(original_lines) = 2
    /\ output = original_lines

IsPureDeletion ==
    /\ Len(patch_lines) >= 1
    /\ IsHunkHeaderLine(patch_lines[1])
    /\ patch_lines[1].n >= 1
    /\ \A j \in 2..Len(patch_lines) : IsRemovedLine(patch_lines[j])
    /\ (patch_lines[1].n - 1) + (Len(patch_lines) - 1) <= Len(original_lines)

\* C6: a single hunk at index k (old_start = k + 1) with exactly n Removed
\* lines, k + n <= len(original), yields original[0:k] + original[k+n:].
C6_PureDeletion ==
    (pc = "done" /\ IsPureDeletion) =>
        LET k == patch_lines[1].n - 1
            n == Len(patch_lines) - 1
        IN  output = Slice(original_lines, 0, k) \o SliceFrom(original_lines, k + n)

\* The second of two lines has been deleted.
C6_Witness ==
    /\ pc = "done" /\ IsPureDeletion
    /\ patch_lines = <<Line("@@", 2, ""), Line("-", 0, "old")>>
    /\ original_lines = <<FileLine(1), FileLine(2)>>
    /\ output = <<FileLine(1)>>

\* C7: no index error is ever raised; a Context or Removed line interpreted
\* with the cursor at or past len(original) adds nothing to the output and
\* the hunk goes on; a hunk whose target lies past the end is accepted and
\* copies what is left of the original.
C7_TolerantTail ==
    /\ [](pc # "IndexError")
    /\ [][/\ (/\ AtBodyLine
              /\ IsContextLine(patch_lines[i + 1]) \/ IsRemovedLine(patch_lines[i + 1])
              /\ src_idx >= Len(original_lines))
             => (output' = output /\ pc' = "body" /\ i' = i + 1)
          /\ (/\ AtHeader
              /\ TargetOf(patch_lines[i + 1]) > Len(original_lines)
              /\ TargetOf(patch_lines[i + 1]) >= src_idx)
             => (/\ pc' = "body"
                 /\ output' = output \o SliceFrom(original_lines, src_idx))]_vars

\* A hunk that starts past the end of a one-line original has had a Context
\* and a Removed line interpreted, and the call returned the original.
C7_Witness ==
    /\ pc = "done"
    /\ original_lines = <<FileLine(1)>>
    /\ patch_lines = <<Line("@@", 3, ""), Line(" ", 0, "ctx"), Line("-", 0, "old")>>
    /\ src_idx = 4
    /\ output = original_lines

(***************************************************************************)
(* Properties of apply_patches, checked under Spec.  The tokenizer is      *)
(* restated here from the block format: a block's body is what lies        *)
(* between its start marker and the first terminator after it.             *)
(***************************************************************************)
IsTerminator(l) == l.m \in {"## patch-end", "## replace-end"}
IsPatchStart(l) == l.m = "## patch-start:"
IsReplaceStart(l) == l.m = "## replace-start:"
IsDelete(l) == l.m = "## delete:"

\* Positions are 0-based: the marker is lines[k], the body starts at k + 1.
HasTerminator(k) == \E e \in (k + 1)..(Len(lines) - 1) : IsTerminator(lines[e + 1])
FirstTerminator(k) ==
    CHOOSE e \in (k + 1)..(Len(lines) - 1) :
        /\ IsTerminator(lines[e + 1])
        /\ \A d \in (k + 1)..(e - 1) : ~IsTerminator(lines[d + 1])
BodyAfter(k) == [j \in 1..(FirstTerminator(k) - k - 1) |-> lines[k + 1 + j]]

AtLineOfStream == status = "running" /\ idx < Len(lines)
AtPatchStart == AtLineOfStream /\ IsPatchStart(lines[idx + 1])
AtReplaceStart == AtLineOfStream /\ IsReplaceStart(lines[idx + 1])
AtOpenBlock == (AtPatchStart \/ AtReplaceStart) /\ ~HasTerminator(idx)
ContentOf(files, path) == IF files[path].exists THEN files[path].content ELSE << >>

\* The diff of the block at idx, applied to its target as it is now.
DiffResultAt(k) ==
    apply_unified_diff_logic(ContentOf(fs, lines[k + 1].t), BodyAfter(k))

\* C2: when a DiffPatch block fails with OutOfOrderHunk the file tree is left
\* exactly as it was, the failure is reported, and the run goes on behind the
\* block's terminator.
C2_FailedDiffLeavesFile ==
    [][(AtPatchStart /\ HasTerminator(idx) /\ DiffResultAt(idx).pc = "OutOfOrderHunk")
         => /\ fs' = fs
            /\ status' = "running"
            /\ idx' = FirstTerminator(idx) + 1
            /\ Len(log') > Len(log)
            /\ log'[Len(log')] = Msg("Failed to apply diff", lines[idx + 1].t)]_vars

\* The first hunk (old_start 2) copied line 1 to the output, the second
\* (old_start 1) was out of order: f is as it was, and the delete block after
\* the failed one has been applied.
C2_Witness ==
    /\ status = "done"
    /\ lines = <<Line("## patch-start:", 0, "f"), Line("@@", 2, ""), Line("@@", 1, ""),
                 Line("## patch-end", 0, ""), Line("## delete:", 0, "g")>>
    /\ fs["f"] = InitialFiles["f"]
    /\ ~fs["g"].exists
    /\ log = <<Msg("Failed to apply diff", "f"), Msg("Deleted", "g")>>

\* C8: a start marker with no terminator after it ends the run with
\* UnterminatedBlock, and only that does; the step changes no file and prints
\* nothing, what earlier blocks did stays, and nothing happens afterwards.
C8_UnterminatedBlock ==
    [][/\ AtOpenBlock => (status' = "UnterminatedBlock" /\ fs' = fs /\ log' = log)
       /\ (status' = "UnterminatedBlock" /\ status = "running") => AtOpenBlock
       /\ status = "UnterminatedBlock" => UNCHANGED <<fs, log, idx, status>>]_vars

\* The run ended with UnterminatedBlock after a delete block had removed g.
C8_Witness ==
    /\ status = "UnterminatedBlock"
    /\ ~fs["g"].exists
    /\ log = <<Msg("Deleted", "g")>>
    /\ idx > 0 /\ IsPatchStart(lines[idx + 1])

\* C9: the body of a block is exactly the lines strictly between its marker
\* and the first terminator after it, whatever they look like; only this one
\* block is executed, and scanning resumes at the line after the terminator.
C9_BodyVerbatim ==
    [][/\ (AtReplaceStart /\ HasTerminator(idx)) =>
            /\ fs' = [fs EXCEPT ![lines[idx + 1].t] = File(BodyAfter(idx))]
            /\ idx' = FirstTerminator(idx) + 1
            /\ log' = Append(log, Msg("Wrote", lines[idx + 1].t))
       /\ (AtPatchStart /\ HasTerminator(idx)) =>
            /\ idx' = FirstTerminator(idx) + 1
            /\ fs' = IF DiffResultAt(idx).pc = "done"
                     THEN [fs EXCEPT ![lines[idx + 1].t] = File(DiffResultAt(idx).output)]
                     ELSE fs
            /\ Len(log') = Len(log) + (IF fs[lines[idx + 1].t].exists THEN 1 ELSE 2)]_vars

\* A replace block whose body holds a delete marker and a patch-start marker
\* has been applied: both are in f's content, g still exists.
C9_Witness ==
    /\ status = "done"
    /\ lines = <<Line("## replace-start:", 0, "f"), Line("## delete:", 0, "g"),
                 Line("## patch-start:", 0, "f"), Line("## patch-end", 0, "")>>
    /\ fs["f"] = File(<<Line("## delete:", 0, "g"), Line("## patch-start:", 0, "f")>>)
    /\ fs["g"] = InitialFiles["g"]
    /\ log = <<Msg("Wrote", "f")>>

\* The blocks whose markers lie at positions k .. upto - 1, in document order;
\* an unterminated block ends the sequence.
RECURSIVE BlocksFrom(_, _)
BlocksFrom(k, upto) ==
    IF k >= Len(lines) \/ k >= upto
    THEN << >>
    ELSE LET l == lines[k + 1]
         IN  IF IsPatchStart(l) \/ IsReplaceStart(l)
             THEN IF HasTerminator(k)
                  THEN <<[kind |-> IF IsPatchStart(l) THEN "DiffPatch" ELSE "Replace",
                          path |-> l.t, body |-> BodyAfter(k)]>>
                       \o BlocksFrom(FirstTerminator(k) + 1, upto)
                  ELSE << >>
             ELSE IF IsDelete(l)
                  THEN <<[kind |-> "Delete", path |-> l.t, body |-> << >>]>>
                       \o BlocksFrom(k + 1, upto)
                  ELSE BlocksFrom(k + 1, upto)

\* What one block does to the file tree.
BlockEffect(files, b) ==
    CASE b.kind = "Replace" -> [files EXCEPT ![b.path] = File(b.body)]
      [] b.kind = "Delete" -> [files EXCEPT ![b.path] = Absent]
      [] b.kind = "DiffPatch" ->
            LET r == apply_unified_diff_logic(ContentOf(files, b.path), b.body)
            IN  IF r.pc = "done" THEN [files EXCEPT ![b.path] = File(r.output)] ELSE files

RECURSIVE FoldBlocks(_, _)
FoldBlocks(files, blocks) ==
    IF blocks = << >> THEN files
    ELSE FoldBlocks(BlockEffect(files, Head(blocks)), Tail(blocks))

\* C10: at every point of a run (not a dry run) the file tree is the fold, in
\* document order over the initial tree, of the blocks that start before the
\* cursor, each diff reading what the blocks before it left; when the run has
\* ended this is the fold of all the blocks of the stream.
C10_DocumentOrderFold ==
    ~dry =>
        /\ fs = FoldBlocks(InitialFiles, BlocksFrom(0, idx))
        /\ status \in {"done", "UnterminatedBlock"} =>
              fs = FoldBlocks(InitialFiles, BlocksFrom(0, Len(lines)))

\* A delete block removed f, then a diff block was applied to the missing
\* file: f holds the added line only, not the added line before f's initial
\* lines.
C10_Witness ==
    /\ status = "done"
    /\ lines = <<Line("## delete:", 0, "f"), Line("## patch-start:", 0, "f"),
                 Line("@@", 1, ""), Line("+", 0, "new"), Line("## patch-end", 0, "")>>
    /\ fs["f"] = File(<<Line("", 0, "new")>>)

\* C11: a DiffPatch block whose target does not exist is not an error: the
\* diff is applied to the empty original, and when that application returns
\* the file exists afterwards with exactly its result; the notice "treating
\* as empty file" is printed and the run goes on.
C11_MissingTargetIsEmpty ==
    [][(AtPatchStart /\ HasTerminator(idx) /\ ~fs[lines[idx + 1].t].exists) =>
         LET path == lines[idx + 1].t
             r == apply_unified_diff_logic(<< >>, BodyAfter(idx))
         IN  /\ status' = "running"
             /\ idx' = FirstTerminator(idx) + 1
             /\ log'[Len(log) + 1] = Msg("does not exist; treating as empty file", path)
             /\ r.pc = "done" =>
                  /\ fs' = [fs EXCEPT ![path] = File(r.output)]
                  /\ log' = log \o <<Msg("does not exist; treating as empty file", path),
                                     Msg("Patched", path)>>]_vars

\* f was deleted, then a diff with one Added line was applied to the missing
\* f: f exists again and holds that line.
C11_Witness ==
    /\ status = "done"
    /\ lines = <<Line("## delete:", 0, "f"), Line("## patch-start:", 0, "f"),
                 Line("@@", 2, ""), Line("+", 0, "new"), Line("## patch-end", 0, "")>>
    /\ fs["f"] = File(<<Line("", 0, "new")>>)
    /\ log = <<Msg("Deleted", "f"), Msg("does not exist; treating as empty file", "f"),
               Msg("Patched", "f")>>

AtDelete == AtLineOfStream /\ IsDelete(lines[idx + 1])

\* C12: after a Delete block (not a dry run) the target is absent whether or
\* not it existed; no other path changes; deleting an absent path changes
\* nothing at all and raises nothing; the run goes on with the next line.
C12_DeleteMakesAbsent ==
    [][(AtDelete /\ ~dry) =>
         LET path == lines[idx + 1].t
         IN  /\ ~fs'[path].exists
             /\ \A q \in Paths \ {path} : fs'[q] = fs[q]
             /\ ~fs[path].exists => fs' = fs
             /\ status' = "running"
             /\ idx' = idx + 1]_vars

\* f was deleted twice: the second delete found it absent and was skipped; g
\* is as it was.
C12_Witness ==
    /\ status = "done"
    /\ lines = <<Line("## delete:", 0, "f"), Line("## delete:", 0, "f")>>
    /\ ~fs["f"].exists
    /\ fs["g"] = InitialFiles["g"]
    /\ log = <<Msg("Deleted", "f"), Msg("Skipped delete (not found)", "f")>>

\* C13: a Replace block (not a dry run) sets its target to the block's
\* content whatever the target was, and leaves the other paths alone;
\* applying the same block once more to the result changes nothing.
C13_ReplaceIdempotent ==
    [][(AtReplaceStart /\ HasTerminator(idx) /\ ~dry) =>
         LET path == lines[idx + 1].t
             once == [fs EXCEPT ![path] = File(BodyAfter(idx))]
         IN  /\ fs' = once
             /\ write_file(BodyAfter(idx), path, dry, fs', log').fs = once]_vars

\* f was deleted and then replaced: the block's content is f's content.
C13_Witness ==
    /\ status = "done"
    /\ lines = <<Line("## delete:", 0, "f"), Line("## replace-start:", 0, "f"),
                 Line("+", 0, "new"), Line("@@", 1, ""), Line("## patch-end", 0, "")>>
    /\ fs["f"] = File(<<Line("+", 0, "new"), Line("@@", 1, "")>>)
    /\ fs["g"] = InitialFiles["g"]

(***************************************************************************)
(* Unrecognized lines, checked under SpecApplyLong.                        *)
(***************************************************************************)
IsUnrecognizedLine(l) ==
    /\ l.m \notin {" ", "-", "+", "\\", "@@", "---", "+++"}
    /\ ~(l.m = "" /\ l.t = "")

\* The diff without the lines that have no effect: those outside a hunk, and
\* in a hunk an Unrecognized line and what follows it up to the next header.
RECURSIVE EffectiveLines(_, _)
EffectiveLines(patch, inHunk) ==
    IF patch = << >> THEN << >>
    ELSE LET l == Head(patch)
         IN  IF IsHunkHeaderLine(l) THEN <<l>> \o EffectiveLines(Tail(patch), TRUE)
             ELSE IF inHunk /\ ~IsUnrecognizedLine(l)
                  THEN <<l>> \o EffectiveLines(Tail(patch), TRUE)
                  ELSE EffectiveLines(Tail(patch), FALSE)

\* C14: an Unrecognized line in a hunk body raises nothing and ends the hunk
\* with output and cursor as they are; the lines after it up to the next hunk
\* header, whatever they start with, change neither; the next header is then
\* applied to the cursor the truncated hunk left.  So the call returns what
\* it returns for the diff without those lines.
C14_UnrecognizedTruncates ==
    /\ [][/\ (AtBodyLine /\ IsUnrecognizedLine(patch_lines[i + 1])) =>
               (pc' = "scan" /\ UNCHANGED <<output, src_idx, i>>)
          /\ (pc = "scan" /\ i < Len(patch_lines) /\ ~IsHunkHeaderLine(patch_lines[i + 1])) =>
               (pc' = "scan" /\ UNCHANGED <<output, src_idx>> /\ i' = i + 1)
          /\ (AtHeader /\ TargetOf(patch_lines[i + 1]) >= src_idx) =>
               /\ pc' = "body"
               /\ src_idx' = TargetOf(patch_lines[i + 1])
               /\ output' = output \o Slice(original_lines, src_idx,
                                            TargetOf(patch_lines[i + 1]))]_vars
    /\ [](pc \in {"done", "OutOfOrderHunk"} =>
            LET r == apply_unified_diff_logic(original_lines,
                                              EffectiveLines(patch_lines, FALSE))
            IN  r.pc = pc /\ r.output = output /\ r.src_idx = src_idx)

\* The first hunk was cut short by an unexpected line, the Added line after it
\* was not emitted, and the second hunk copied line 1 of the original.
C14_Witness ==
    /\ pc = "done"
    /\ original_lines = <<FileLine(1), FileLine(2)>>
    /\ patch_lines = <<Line("@@", 1, ""), Line("", 0, "garbage"), Line("+", 0, "new"),
                       Line("@@", 2, "")>>
    /\ src_idx = 1
    /\ output = original_lines

(***************************************************************************)
(* More properties of apply_unified_diff_logic, checked under SpecApply.   *)
(***************************************************************************)
IsEmptyLine(l) == l.m = "" /\ l.t = ""
IsNoNewlineMarker(l) == l.m = "\\"
IsNoOpLine(l) == IsEmptyLine(l) \/ IsNoNewlineMarker(l)

RECURSIVE WithoutNoOps(_)
WithoutNoOps(patch) ==
    IF patch = << >> THEN << >>
    ELSE IF IsNoOpLine(Head(patch)) THEN WithoutNoOps(Tail(patch))
         ELSE <<Head(patch)>> \o WithoutNoOps(Tail(patch))

\* C15: an exactly empty line in a hunk body, and likewise a NoNewlineMarker
\* line, changes neither the output nor the cursor and does not end the hunk:
\* the lines after it are interpreted as if it were not there.
C15_EmptyLineIsNoOp ==
    /\ [][(AtBodyLine /\ IsNoOpLine(patch_lines[i + 1])) =>
            (pc' = "body" /\ i' = i + 1 /\ UNCHANGED <<output, src_idx>>)]_vars
    /\ [](pc \in {"done", "OutOfOrderHunk"} =>
            LET r == apply_unified_diff_logic(original_lines, WithoutNoOps(patch_lines))
            IN  r.pc = pc /\ r.output = output /\ r.src_idx = src_idx)

\* An empty line stood between the hunk header and an Added line: the Added
\* line was still emitted, before the two lines of the original.
C15_Witness ==
    /\ pc = "done"
    /\ original_lines = <<FileLine(1), FileLine(2)>>
    /\ patch_lines = <<Line("@@", 1, ""), Line("", 0, ""), Line("+", 0, "new")>>
    /\ output = <<Line("", 0, "new"), FileLine(1), FileLine(2)>>

\* C16: a Context line interpreted with the cursor inside the original emits
\* original[src_cursor], never the patch's text, and advances the cursor by
\* exactly 1; the hunk goes on, whatever the patch's context text is (here
\* it always differs from the original's line).
C16_ContextTrustsOriginal ==
    [][(AtBodyLine /\ IsContextLine(patch_lines[i + 1]) /\ src_idx < Len(original_lines)) =>
         /\ output' = Append(output, original_lines[src_idx + 1])
         /\ src_idx' = src_idx + 1
         /\ pc' = "body"
         /\ i' = i + 1]_vars

\* A Context line with the text "ctx" was interpreted at line 2 of the
\* original, whose text is not "ctx": line 2 itself is in the output.
C16_Witness ==
    /\ pc = "done"
    /\ original_lines = <<FileLine(1), FileLine(2)>>
    /\ patch_lines = <<Line("@@", 2, ""), Line(" ", 0, "ctx"), Line("+", 0, "new")>>
    /\ output = <<FileLine(1), FileLine(2), Line("", 0, "new")>>
    /\ FileLine(2).t # "ctx"

\* The lines of the original are numbered (n >= 1); Added lines carry n = 0.
KeptIndices(out) == {out[k].n : k \in 1..Len(out)} \ {0}
Consumed(src) == Min(src, Len(original_lines))

\* C17: conservation.  The lines of the output that are not Added lines are
\* lines of the original, in the original's order, each at most once; a step
\* passes over an original line without emitting it only when it interprets
\* a Removed line with the cursor at that line; so the length of the output
\* grows by the original lines passed, minus one for such a Removed line,
\* plus one for an Added line, and the final copy emits all that is left.
C17_Conservation ==
    /\ [](\A a, b \in 1..Len(output) :
            /\ output[a].n >= 1 =>
                 (output[a].n <= Len(original_lines)
                  /\ output[a] = original_lines[output[a].n])
            /\ (a < b /\ output[a].n >= 1 /\ output[b].n >= 1) =>
                 output[a].n < output[b].n)
    /\ [][LET removes == /\ AtBodyLine /\ IsRemovedLine(patch_lines[i + 1])
                         /\ src_idx < Len(original_lines)
              adds == AtBodyLine /\ IsAddedLine(patch_lines[i + 1])
              hi == IF pc' = "done" THEN Len(original_lines) ELSE Consumed(src_idx')
              passed == (Consumed(src_idx) + 1)..hi
              lost == passed \ KeptIndices(output')
          IN  /\ KeptIndices(output) \subseteq KeptIndices(output')
              /\ lost # {} => (removes /\ lost = {src_idx + 1})
              /\ Len(output') = Len(output) + Cardinality(passed)
                                - (IF removes THEN 1 ELSE 0) + (IF adds THEN 1 ELSE 0)]_vars

\* Line 2 of the original was removed and a line added: the output has line 1
\* and the added line, 2 - 1 + 1 lines.
C17_Witness ==
    /\ pc = "done"
    /\ original_lines = <<FileLine(1), FileLine(2)>>
    /\ patch_lines = <<Line("@@", 2, ""), Line("-", 0, "old"), Line("+", 0, "new")>>
    /\ output = <<FileLine(1), Line("", 0, "new")>>

(***************************************************************************)
(* Termination.  A behaviour of SpecLive is one call of apply_patches or    *)
(* one call of apply_unified_diff_logic.  The program is one sequential    *)
(* thread that keeps running until it returns or raises, which is weak     *)
(* fairness of its steps.                                                  *)
(***************************************************************************)
\* The inputs of the two calls, shorter than under Spec and SpecApply.
InitLive ==
    \/ /\ lines \in SeqsUpTo(StreamLines, MaxStreamLen - 3)
       /\ idx = 0
       /\ fs = InitialFiles
       /\ dry = FALSE
       /\ status = "running"
       /\ log = << >>
       /\ original_lines = << >>
       /\ patch_lines = << >>
       /\ output = << >>
       /\ src_idx = 0
       /\ i = 0
       /\ pc = "idle"
    \/ /\ original_lines \in Originals
       /\ patch_lines \in SeqsUpTo(PatchLines, MaxPatchLen - 1)
       /\ output = << >>
       /\ src_idx = 0
       /\ i = 0
       /\ pc = "scan"
       /\ lines = << >>
       /\ idx = 0
       /\ fs = InitialFiles
       /\ dry = FALSE
       /\ status = "idle"
       /\ log = << >>
NextLive == Next \/ NextApply
SpecLive == InitLive /\ [][NextLive]_vars /\ WF_vars(Next) /\ WF_vars(NextApply)

Ended == pc \in {"done", "OutOfOrderHunk"} \/ status \in {"done", "UnterminatedBlock"}

\* C18: both loops make strict progress.  Every pass of the tokenizer's loop
\* that does not end the run raises idx; the applier's i never decreases,
\* every pass of its outer loop that goes on raises it, and the one step of
\* the body loop that leaves i alone (the break at a header or at an
\* Unrecognized line) hands over to the outer loop, which raises it.  Both
\* indices stay within their input, the tokenizer's loop runs only while idx
\* is short of it, and the applier always has a step that changes its state
\* until it returns, so every run ends: apply_patches with all lines
\* processed or with UnterminatedBlock, the applier with all patch lines
\* processed or with OutOfOrderHunk.
C18_Termination ==
    /\ [][/\ (status = "running" /\ status' = "running") => idx' > idx
          /\ i' >= i
          /\ (pc = "scan" /\ pc' \in {"scan", "body"}) => i' > i
          /\ (pc = "body" /\ i' = i) => pc' = "scan"]_vars
    /\ [](/\ idx <= Len(lines)
          /\ i <= Len(patch_lines)
          /\ status = "done" => idx = Len(lines)
          /\ pc = "done" => i = Len(patch_lines))
    /\ [](pc \in {"scan", "body"} => ApplyStep(Now) # Now)
    /\ <>Ended

\* The applier returned after an Unrecognized line broke a hunk body and the
\* outer loop stepped over that line.
C18_Witness ==
    /\ pc = "done"
    /\ patch_lines = <<Line("@@", 1, ""), Line("", 0, "garbage")>>
    /\ i = 2
    /\ Len(original_lines) = 2
    /\ output = original_lines

(***************************************************************************)
(* The dry run, checked under SpecDry.                                     *)
(***************************************************************************)
\* What a dry run prints for the DiffPatch block at idx, computed from the
\* file tree files.
DryPatchLog(files) ==
    LET path == lines[idx + 1].t
        r == apply_unified_diff_logic(ContentOf(files, path), BodyAfter(idx))
    IN  (IF files[path].exists THEN << >>
         ELSE <<Msg("does not exist; treating as empty file", path)>>)
        \o <<IF r.pc = "done"
              THEN [msg |-> "[dry-run] would patch", path |-> path, n |-> Len(r.output)]
              ELSE Msg("Failed to apply diff", path)>>

\* C19: in a dry run no block of any kind creates, changes or removes a file,
\* so the file tree is the one the run started from at every point; every
\* DiffPatch block is therefore evaluated against the content its target had
\* when the run began, and Replace and Delete blocks only print what they
\* would do.
C19_DryRunFrame ==
    /\ [](dry /\ fs \in DryTrees)
    /\ [][/\ fs' = fs
          /\ (AtPatchStart /\ HasTerminator(idx)) => log' = log \o DryPatchLog(fs)
          /\ (AtReplaceStart /\ ~AtPatchStart /\ HasTerminator(idx)) =>
                log' = Append(log, Msg("[dry-run] would write", lines[idx + 1].t))
          /\ AtDelete =>
                log' = Append(log, Msg("[dry-run] would delete", lines[idx + 1].t))]_vars

\* A dry run over a delete of f and then a diff for f: f is still there with
\* its two lines, and the diff was evaluated on them (a result of 2 lines),
\* not on the missing file the delete would have left.
C19_Witness ==
    /\ status = "done"
    /\ dry
    /\ lines = <<Line("## delete:", 0, "f"), Line("## patch-start:", 0, "f"),
                 Line("@@", 1, ""), Line("## patch-end", 0, "")>>
    /\ fs = InitialFiles
    /\ log = <<Msg("[dry-run] would delete", "f"),
               [msg |-> "[dry-run] would patch", path |-> "f", n |-> 2]>>

====
